---- MODULE Spec2Model ----
(***************************************************************************)
(* Wedding-venue recommendation backend.                                   *)
(*                                                                         *)
(*   src/src/services/venue_query_builder.py   build_venue_query           *)
(*   src/src/services/venue_recommender.py     VenueRecommender            *)
(*   src/src/api/routes/images.py              get_image                   *)
(*   src/src/api/routes/health.py              database_health             *)
(*   src/src/config/redis.py                   RedisClient                 *)
(*                                                                         *)
(* A SQL text is a sequence of tokens: Sql(s) is a fragment of text the    *)
(* code writes, Ph(n) is the named placeholder ":n".  A parameter mapping  *)
(* (a Python dict) is a function from placeholder names to bound values.   *)
(*                                                                         *)
(* The Korean string literals of the source are written in ASCII:          *)
(*   guest_count  소규모 small      중규모 medium      대규모 large        *)
(*   budget       저 low            중 mid             고 high             *)
(*   region       서울 Seoul        상관없음 no_preference                 *)
(*   style        럭셔리 luxury     모던 modern        클래식 classic      *)
(*                자연친화 nature   야외정원 outdoor_garden                *)
(*                미니멀 minimal    유니크 unique                          *)
(*   season       봄 spring   여름 summer   가을 autumn   겨울 winter      *)
(***************************************************************************)
EXTENDS Integers, Sequences, FiniteSets, TLC

VARIABLES
    pc,          \* where generate() stands: idle, primary, fallback, returned, raised
    req,         \* the arguments of the running generate() call
    stmt,        \* <<query, params>> returned by build_venue_query
    fallback,    \* the fallback_queries list of _find_fallback_venue
    fi,          \* index of the fallback candidate awaiting execution
    executed,    \* the Execute calls of this request, in order, with their outcome
    response,    \* the payload generate() returned
    img,         \* the last get_image call: its arguments, environment and response
    redis_client,\* the global RedisClient instance
    health       \* database_health(): its position, result, response and the
                 \* responses of the calls so far

vars == <<pc, req, stmt, fallback, fi, executed, response, img, redis_client, health>>

----------------------------------------------------------------------------
(* Python values *)

\* None where a string is expected
None == "None"

\* None / n where an integer is expected (Optional[int])
NoneInt == <<>>

SomeInt(n) == <<n>>

\* bool(v) for a str-or-None value
Truthy(v) == v # None /\ v # ""

\* bool(v) for an int-or-None value
TruthyInt(v) == v # NoneInt /\ v[1] # 0

\* a dict: {} and d[k] = v
EmptyMap == [k \in {} |-> 0]

Put(d, k, v) == [x \in (DOMAIN d) \cup {k} |-> IF x = k THEN v ELSE d[x]]

InSeq(x, s) == \E i \in 1..Len(s) : s[i] = x

\* text fragment / named placeholder ":n"
Sql(s) == [t |-> "sql", s |-> s]

Ph(n) == [t |-> "ph", s |-> n]

RECURSIVE Join(_, _)
\* sep.join(parts), each part a token sequence
Join(sep, parts) ==
    IF parts = <<>> THEN <<>>
    ELSE IF Len(parts) = 1 THEN Head(parts)
    ELSE Head(parts) \o <<Sql(sep)>> \o Join(sep, Tail(parts))

----------------------------------------------------------------------------
(* venue_query_builder.py *)

NO_PREFERENCE == "no_preference"

\* style_to_venue_type.get(style_preference, [])
style_to_venue_type(style_preference) ==
    CASE style_preference = "luxury"         -> <<"HOTEL">>
      [] style_preference = "modern"         -> <<"HOTEL", "WEDDING_HALL">>
      [] style_preference = "classic"        -> <<"HOTEL", "WEDDING_HALL">>
      [] style_preference = "nature"         -> <<"GARDEN", "OUTDOOR">>
      [] style_preference = "outdoor_garden" -> <<"GARDEN", "OUTDOOR">>
      [] style_preference = "minimal"        -> <<"HOUSE_STUDIO", "RESTAURANT">>
      [] style_preference = "unique"         -> <<"HOUSE_STUDIO", "RESTAURANT", "OTHER">>
      [] OTHER                               -> <<>>

indoor_types == <<"HOTEL", "WEDDING_HALL", "RESTAURANT", "HOUSE_STUDIO">>

\* the season step: summer and winter keep the indoor types
season_venue_types(venue_types, season) ==
    IF season \in {"summer", "winter"}
    THEN IF venue_types # <<>>
         THEN SelectSeq(venue_types, LAMBDA vt : InSeq(vt, indoor_types))
         ELSE indoor_types
    ELSE venue_types

\* [f":{prefix}{i}" for i in range(len(venue_types))], joined by ", "
type_placeholders(prefix, venue_types) ==
    Join(", ", [i \in 1..Len(venue_types) |-> <<Ph(prefix \o ToString(i - 1))>>])

RECURSIVE bind_types(_, _, _, _)
\* for i, vt in enumerate(venue_types): params[f"{prefix}{i}"] = vt
bind_types(params, prefix, venue_types, i) ==
    IF i > Len(venue_types) THEN params
    ELSE bind_types(Put(params, prefix \o ToString(i - 1), venue_types[i]),
                    prefix, venue_types, i + 1)

\* the IN condition over one placeholder per type
in_condition(prefix, venue_types) ==
    <<Sql("venueType IN (")>> \o type_placeholders(prefix, venue_types) \o <<Sql(")")>>

\* region_step with the region written into the text (an f-string condition)
region_step_interpolated(region) ==
    IF Truthy(region) /\ region # NO_PREFERENCE
    THEN << << <<Sql("address LIKE '%" \o region \o "%'")>> >>, EmptyMap >>
    ELSE << <<>>, EmptyMap >>

\* 1. region -> address: <<conditions, params>> after the step
region_step(region) ==
    IF Truthy(region) /\ region # NO_PREFERENCE
    THEN << << <<Sql("address LIKE "), Ph("region_pattern")>> >>,
            Put(EmptyMap, "region_pattern", "%" \o region \o "%") >>
    ELSE << <<>>, EmptyMap >>

\* 2./3. style and season -> venueType
type_step(cp, style_preference, season) ==
    LET venue_types == season_venue_types(style_to_venue_type(style_preference), season)
    IN  IF venue_types # <<>>
        THEN << Append(cp[1], in_condition("venue_type_", venue_types)),
                bind_types(cp[2], "venue_type_", venue_types, 1) >>
        ELSE cp

\* parking_map: bucket -> (min_val, max_val)
parking_map ==
    [g \in {"small", "medium", "large"} |->
        CASE g = "small"  -> <<SomeInt(0), SomeInt(50)>>
          [] g = "medium" -> <<SomeInt(30), SomeInt(150)>>
          [] g = "large"  -> <<SomeInt(100), NoneInt>>]

\* parking_step with the lower bound guarded by "if min_val:" as the upper is
parking_step_truthy_min(cp, guest_count) ==
    IF guest_count \in DOMAIN parking_map
    THEN LET min_val == parking_map[guest_count][1]
             max_val == parking_map[guest_count][2]
             lo == IF TruthyInt(min_val)
                   THEN << Append(cp[1], <<Sql("parking >= "), Ph("parking_min")>>),
                           Put(cp[2], "parking_min", min_val[1]) >>
                   ELSE cp
         IN  IF TruthyInt(max_val)
             THEN << Append(lo[1], <<Sql("parking <= "), Ph("parking_max")>>),
                     Put(lo[2], "parking_max", max_val[1]) >>
             ELSE lo
    ELSE cp

\* 4. guest_count -> parking
parking_step(cp, guest_count) ==
    IF guest_count \in DOMAIN parking_map
    THEN LET min_val == parking_map[guest_count][1]
             max_val == parking_map[guest_count][2]
             lo == << Append(cp[1], <<Sql("parking >= "), Ph("parking_min")>>),
                      Put(cp[2], "parking_min", min_val[1]) >>
         IN  IF TruthyInt(max_val)
             THEN << Append(lo[1], <<Sql("parking <= "), Ph("parking_max")>>),
                     Put(lo[2], "parking_max", max_val[1]) >>
             ELSE lo
    ELSE cp

\* 5. budget -> venueType exclusion
budget_step(cp, budget) ==
    IF budget = "low"
    THEN << Append(cp[1], <<Sql("venueType != "), Ph("excluded_type")>>),
            Put(cp[2], "excluded_type", "HOTEL") >>
    ELSE cp

ORDER_BY_HOTEL == Sql(" ORDER BY CASE WHEN venueType = 'HOTEL' THEN 0 ELSE 1 END")

\* query_text with the ORDER BY appended after the LIMIT
query_text_order_last(conditions, budget) ==
    <<Sql("SELECT * FROM tb_wedding_hall")>>
    \o (IF conditions # <<>> THEN <<Sql(" WHERE ")>> \o Join(" AND ", conditions) ELSE <<>>)
    \o <<Sql(" LIMIT "), Ph("limit")>>
    \o (IF budget = "high" THEN <<ORDER_BY_HOTEL>> ELSE <<>>)

\* the statement's text from the conditions: SELECT, WHERE, ORDER BY, LIMIT
query_text(conditions, budget) ==
    <<Sql("SELECT * FROM tb_wedding_hall")>>
    \o (IF conditions # <<>> THEN <<Sql(" WHERE ")>> \o Join(" AND ", conditions) ELSE <<>>)
    \o (IF budget = "high" THEN <<ORDER_BY_HOTEL>> ELSE <<>>)
    \o <<Sql(" LIMIT "), Ph("limit")>>

build_venue_query(guest_count, budget, region, style_preference, season, num_recommendations) ==
    LET cp == budget_step(
                  parking_step(
                      type_step(region_step(region), style_preference, season),
                      guest_count),
                  budget)
    IN  << query_text(cp[1], budget), Put(cp[2], "limit", num_recommendations) >>

----------------------------------------------------------------------------
(* venue_recommender.py: the static tables and the per-row enrichment.     *)
(* The list-valued fields of a recommendation (pros, cons, amenities,      *)
(* food_style, booking_tips) and capacity are left out: each is a fixed    *)
(* table of venueType, parking or season and no property below reads it.   *)

\* "정보 없음"
NO_INFO == "no information"

\* "조건에 맞는 웨딩홀을 찾지 못했습니다. 다른 조건으로 검색해보세요."
NO_MATCH_ADVICE == "No wedding hall matches the conditions. Try other conditions."

\* "지역 조건을 완화"
RELAX_REGION == "relaxing the region condition"

\* "스타일 조건만 적용"
STYLE_ONLY == "applying the style condition only"

venue_type_kr(venue_type) ==
    CASE venue_type = "HOTEL"        -> "hotel"
      [] venue_type = "WEDDING_HALL" -> "wedding hall"
      [] venue_type = "OUTDOOR"      -> "outdoor"
      [] venue_type = "RESTAURANT"   -> "restaurant"
      [] venue_type = "HOUSE_STUDIO" -> "house studio"
      [] venue_type = "GARDEN"       -> "garden"
      [] venue_type = "OTHER"        -> "other"
      [] OTHER                       -> venue_type

_estimate_price_range(venue_type) ==
    CASE venue_type = "HOTEL"        -> "high"
      [] venue_type = "HOUSE_STUDIO" -> "low"
      [] OTHER                       -> "mid"

\* base_cost.get(venue_type, {}).get(guest_count, "문의 필요"), in 10,000 won
_estimate_cost(venue_type, guest_count) ==
    LET base_cost ==
            CASE venue_type = "HOTEL"        -> <<"3,000~", "5,000~", "8,000~">>
              [] venue_type = "WEDDING_HALL" -> <<"1,500~", "2,500~", "4,000~">>
              [] venue_type = "GARDEN"       -> <<"1,000~", "2,000~", "3,500~">>
              [] venue_type = "OUTDOOR"      -> <<"800~", "1,500~", "2,500~">>
              [] venue_type = "RESTAURANT"   -> <<"500~", "1,000~", "2,000~">>
              [] venue_type = "HOUSE_STUDIO" -> <<"300~", "700~", "1,200~">>
              [] OTHER                       -> <<>>
        bucket == CASE guest_count = "small"  -> 1
                    [] guest_count = "medium" -> 2
                    [] guest_count = "large"  -> 3
                    [] OTHER                  -> 0
    IN  IF base_cost # <<>> /\ bucket # 0 THEN base_cost[bucket] ELSE "inquiry needed"

RECURSIVE JoinStr(_, _)
\* sep.join(parts) for strings
JoinStr(sep, parts) ==
    IF parts = <<>> THEN ""
    ELSE IF Len(parts) = 1 THEN Head(parts)
    ELSE Head(parts) \o sep \o JoinStr(sep, Tail(parts))

\* the why_recommended sentence of a row of the primary query
why_recommended(guest_count, budget, region, style_preference, season) ==
    LET why_parts ==
               (IF Truthy(guest_count) THEN <<guest_count \o " guests">> ELSE <<>>)
            \o (IF Truthy(budget) THEN <<budget \o " budget">> ELSE <<>>)
            \o (IF Truthy(region) /\ region # NO_PREFERENCE
                THEN <<region \o " region">> ELSE <<>>)
            \o (IF Truthy(style_preference) THEN <<style_preference \o " style">> ELSE <<>>)
            \o (IF Truthy(season) THEN <<season \o " wedding">> ELSE <<>>)
    IN  JoinStr(", ", why_parts) \o " suits you."

_generate_advice(guest_count, budget, style, season) ==
    LET advices ==
               (CASE budget = "low"  -> <<"Use weekday or off-season discounts">>
                  [] budget = "high" -> <<"Make full use of premium services">>
                  [] OTHER           -> <<>>)
            \o (CASE guest_count = "small" -> <<"A small wedding keeps a private mood">>
                  [] guest_count = "large" -> <<"Check parking and access for a large wedding">>
                  [] OTHER                 -> <<>>)
            \o (CASE season \in {"spring", "autumn"} -> <<"Peak season: book 6 months ahead">>
                  [] season = "summer" -> <<"Mind the weather for outdoor halls">>
                  [] season = "winter" -> <<"Look at indoor halls first">>
                  [] OTHER             -> <<>>)
    IN  IF advices # <<>> THEN JoinStr(" ", advices)
        ELSE "Compare the matching wedding halls carefully."

\* location_of without the "or": the column as it is
location_of_raw(address) == address

\* address or "정보 없음"
location_of(address) == IF Truthy(address) THEN address ELSE NO_INFO

\* phone or ""
phone_of(phone) == IF Truthy(phone) THEN phone ELSE ""

\* image_url or ""
image_url_of(image_url) == IF Truthy(image_url) THEN image_url ELSE ""

\* the recommendation built from one row, with its explanatory sentence
recommendation(row, guest_count, why) ==
    [ venue_name      |-> row.name,
      description     |-> venue_type_kr(row.venueType) \o " type wedding hall.",
      location        |-> location_of(row.address),
      price_range     |-> _estimate_price_range(row.venueType),
      estimated_cost  |-> _estimate_cost(row.venueType, guest_count),
      why_recommended |-> why,
      phone           |-> phone_of(row.phone),
      image_url       |-> image_url_of(row.imageUrl) ]

\* generate(): the response built from a non-empty result of the primary query
primary_response(rows, r) ==
    [ recommendations |->
          [i \in 1..Len(rows) |->
              recommendation(rows[i], r.guest_count,
                  why_recommended(r.guest_count, r.budget, r.region,
                                  r.style_preference, r.season))],
      overall_advice |->
          _generate_advice(r.guest_count, r.budget, r.style_preference, r.season) ]

\* generate(): the payload when no fallback candidate returned a row
empty_response == [ recommendations |-> <<>>, overall_advice |-> NO_MATCH_ADVICE ]

\* "정확히 일치하는 결과가 없어 {relaxed_condition}하여 추천드립니다."
fallback_why(relaxed_condition) ==
    "No exact match; recommended by " \o relaxed_condition \o "."

\* "정확히 일치하는 결과가 없어 {relaxed_condition}하여 비슷한 웨딩홀을 추천드립니다."
fallback_advice(relaxed_condition) ==
    "No exact match; a similar wedding hall is recommended by " \o relaxed_condition \o "."

\* fallback_response naming the relaxation of the list's last candidate
fallback_response_last_label(row, guest_count, relaxed_condition) ==
    [ recommendations |->
          << recommendation(row, guest_count, fallback_why(RELAX_REGION)) >>,
      overall_advice |-> fallback_advice(RELAX_REGION) ]

\* _find_fallback_venue(): the payload built from the row of a candidate
fallback_response(row, guest_count, relaxed_condition) ==
    [ recommendations |->
          << recommendation(row, guest_count, fallback_why(relaxed_condition)) >>,
      overall_advice |-> fallback_advice(relaxed_condition) ]

\* the unconditional candidate
unconditional_candidate ==
    << <<Sql("SELECT * FROM tb_wedding_hall LIMIT 1")>>, EmptyMap, RELAX_REGION >>

\* the style-only candidate
style_candidate(venue_types) ==
    << <<Sql("SELECT * FROM tb_wedding_hall WHERE venueType IN (")>>
           \o type_placeholders("vt_", venue_types) \o <<Sql(") LIMIT 1")>>,
       bind_types(EmptyMap, "vt_", venue_types, 1),
       STYLE_ONLY >>

\* fallback_queries with the style-only candidate appended, not inserted first
fallback_queries_appended(style_preference) ==
    LET venue_types == style_to_venue_type(style_preference)
    IN  IF venue_types # <<>>
        THEN << unconditional_candidate, style_candidate(venue_types) >>
        ELSE << unconditional_candidate >>

\* fallback_queries with the unconditional candidate listed a second time
fallback_queries_retry(style_preference) ==
    LET venue_types == style_to_venue_type(style_preference)
    IN  IF venue_types # <<>>
        THEN << style_candidate(venue_types), unconditional_candidate,
                unconditional_candidate >>
        ELSE << unconditional_candidate, unconditional_candidate >>

\* _find_fallback_venue(): the list of (query, params, relaxed_condition)
fallback_queries(style_preference) ==
    LET venue_types == style_to_venue_type(style_preference)
    IN  IF venue_types # <<>>
        THEN << style_candidate(venue_types), unconditional_candidate >>
        ELSE << unconditional_candidate >>

----------------------------------------------------------------------------
(* The requests and the database rows of the model *)

\* rows a primary query returns at most
MaxRows == 2

\* num_recommendations: int = 3
DefaultLimit == 3

GuestCounts == {"small", "medium", "large", "family"}

Budgets == {"low", "mid", "high"}

Regions == {"Seoul", NO_PREFERENCE, ""}

Styles == {"luxury", "modern", "classic", "nature", "outdoor_garden", "minimal",
           "unique", "vintage"}

Seasons == {"spring", "summer", "autumn", "winter"}

Limits == {1, DefaultLimit}

\* tb_wedding_hall rows: all fields set; the optional fields NULL; mixed
Rows ==
    { [ name |-> "Grand Hotel", venueType |-> "HOTEL", parking |-> 200,
        address |-> "Seoul Jung-gu", phone |-> "02-000-0000",
        imageUrl |-> "/images/tb_wedding_hall/1.png" ],
      [ name |-> "Forest Garden", venueType |-> "GARDEN", parking |-> 20,
        address |-> None, phone |-> None, imageUrl |-> None ],
      [ name |-> "Loft", venueType |-> "OTHER", parking |-> 0,
        address |-> "Busan Haeundae", phone |-> None, imageUrl |-> "" ] }

\* the non-empty results fetchall() can give under LIMIT n
RowLists(n) ==
    UNION { [1..k -> Rows] : k \in 1..(IF n < MaxRows THEN n ELSE MaxRows) }

NoRequest == [none |-> TRUE]

NoResponse == [none |-> TRUE]

\* one Execute call: the statement and what the collaborator answered
Executed(query, params, result, rows) ==
    [query |-> query, params |-> params, result |-> result, rows |-> rows]

----------------------------------------------------------------------------
(* VenueRecommender.generate *)

Init ==
    /\ pc = "idle"
    /\ req = NoRequest
    /\ stmt = << <<>>, EmptyMap >>
    /\ fallback = <<>>
    /\ fi = 0
    /\ executed = <<>>
    /\ response = NoResponse
    /\ img = [none |-> TRUE]
    /\ redis_client = [client |-> None]     \* RedisClient.__init__
    /\ health = [ pc |-> "idle", result |-> [none |-> TRUE],
                  response |-> [none |-> TRUE], log |-> <<>> ]

\* generate() is called: the statement is built and handed to db.execute.
\* A call keeps nothing of the calls before it, so the model follows one call.
Generate(guest_count, budget, region, style_preference, season, num_recommendations) ==
    /\ pc = "idle"
    /\ req' = [ guest_count |-> guest_count, budget |-> budget, region |-> region,
                style_preference |-> style_preference, season |-> season,
                num_recommendations |-> num_recommendations ]
    /\ stmt' = build_venue_query(guest_count, budget, region, style_preference,
                                 season, num_recommendations)
    /\ pc' = "primary"
    /\ fallback' = <<>>
    /\ fi' = 0
    /\ executed' = <<>>
    /\ response' = NoResponse
    /\ UNCHANGED <<img, redis_client, health>>

\* db.execute of the primary statement raises: nothing catches it
PrimaryFails ==
    /\ pc = "primary"
    /\ executed' = Append(executed, Executed(stmt[1], stmt[2], "error", <<>>))
    /\ pc' = "raised"
    /\ UNCHANGED <<req, stmt, fallback, fi, response, img, redis_client, health>>

\* the primary statement returns rows: each becomes a recommendation
PrimaryRows ==
    /\ pc = "primary"
    /\ \E rows \in RowLists(req.num_recommendations) :
        /\ executed' = Append(executed, Executed(stmt[1], stmt[2], "ok", rows))
        /\ response' = primary_response(rows, req)
    /\ pc' = "returned"
    /\ UNCHANGED <<req, stmt, fallback, fi, img, redis_client, health>>

\* the primary statement returns no row: _find_fallback_venue builds its list
PrimaryEmpty ==
    /\ pc = "primary"
    /\ executed' = Append(executed, Executed(stmt[1], stmt[2], "ok", <<>>))
    /\ fallback' = fallback_queries(req.style_preference)
    /\ fi' = 1
    /\ pc' = "fallback"
    /\ UNCHANGED <<req, stmt, response, img, redis_client, health>>

\* FallbackFails with the error caught and taken for "no row"
FallbackFails_swallowed ==
    /\ pc = "fallback"
    /\ executed' = Append(executed, Executed(fallback[fi][1], fallback[fi][2], "error", <<>>))
    /\ IF fi < Len(fallback)
       THEN /\ fi' = fi + 1
            /\ UNCHANGED <<pc, response>>
       ELSE /\ response' = [ recommendations |-> <<>>, overall_advice |-> NO_MATCH_ADVICE ]
            /\ pc' = "returned"
            /\ UNCHANGED fi
    /\ UNCHANGED <<req, stmt, fallback, img, redis_client, health>>

\* new_db.execute of candidate fi raises: nothing catches it
FallbackFails ==
    /\ pc = "fallback"
    /\ executed' = Append(executed, Executed(fallback[fi][1], fallback[fi][2], "error", <<>>))
    /\ pc' = "raised"
    /\ UNCHANGED <<req, stmt, fallback, fi, response, img, redis_client, health>>

\* candidate fi returns a row: its payload is returned
FallbackRow ==
    /\ pc = "fallback"
    /\ \E row \in Rows :
        /\ executed' = Append(executed, Executed(fallback[fi][1], fallback[fi][2], "ok", <<row>>))
        /\ response' = fallback_response(row, req.guest_count, fallback[fi][3])
    /\ pc' = "returned"
    /\ UNCHANGED <<req, stmt, fallback, fi, img, redis_client, health>>

\* candidate fi returns no row: the next candidate, or the empty payload
FallbackEmpty ==
    /\ pc = "fallback"
    /\ executed' = Append(executed, Executed(fallback[fi][1], fallback[fi][2], "ok", <<>>))
    /\ IF fi < Len(fallback)
       THEN /\ fi' = fi + 1
            /\ UNCHANGED <<pc, response>>
       ELSE /\ response' = empty_response
            /\ pc' = "returned"
            /\ UNCHANGED fi
    /\ UNCHANGED <<req, stmt, fallback, img, redis_client, health>>

Next ==
    \/ \E g \in GuestCounts, b \in Budgets, r \in Regions, s \in Styles,
          se \in Seasons, n \in Limits : Generate(g, b, r, s, se, n)
    \/ PrimaryFails
    \/ PrimaryRows
    \/ PrimaryEmpty
    \/ FallbackFails
    \/ FallbackRow
    \/ FallbackEmpty

Spec == Init /\ [][Next]_vars

----------------------------------------------------------------------------
(* api/routes/images.py.  A str is a sequence of characters, a path the    *)
(* sequence of its components below the root.  The file system holds       *)
(* regular files and symbolic links to files; the directories are those    *)
(* the files lie in, and image_base_path is one of them.                   *)

IsPrefix(p, s) == Len(p) <= Len(s) /\ SubSeq(s, 1, Len(p)) = p

\* s.endswith(suffix)
EndsWith(s, suffix) ==
    Len(suffix) <= Len(s) /\ SubSeq(s, Len(s) - Len(suffix) + 1, Len(s)) = suffix

png == <<".", "p", "n", "g">>

allowed_extensions ==
    { png, <<".", "j", "p", "g">>, <<".", "j", "p", "e", "g">>,
      <<".", "g", "i", "f">>, <<".", "w", "e", "b", "p">> }

\* str.lower() over the characters of the model
Lower(s) ==
    [i \in 1..Len(s) |->
        CASE s[i] = "P" -> "p" [] s[i] = "N" -> "n" [] s[i] = "G" -> "g"
          [] s[i] = "A" -> "a" [] OTHER -> s[i]]

\* PurePath.suffix of a file name: from its last dot, unless that dot is the
\* first or the last character
Suffix(name) ==
    LET dots == {i \in 1..Len(name) : name[i] = "."}
    IN  IF dots = {} THEN <<>>
        ELSE LET i == CHOOSE d \in dots : \A e \in dots : e <= d
             IN  IF 1 < i /\ i < Len(name) THEN SubSeq(name, i, Len(name)) ELSE <<>>

RECURSIVE PathStr(_)
\* str(path) of an absolute path
PathStr(path) ==
    IF path = <<>> THEN <<>> ELSE <<"/">> \o Head(path) \o PathStr(Tail(path))

RECURSIVE Normalize(_, _)
\* the components with every ".." taken with the component before it
Normalize(done, rest) ==
    IF rest = <<>> THEN done
    ELSE IF Head(rest) = <<".", ".">>
         THEN Normalize(IF done = <<>> THEN <<>> ELSE SubSeq(done, 1, Len(done) - 1),
                        Tail(rest))
         ELSE Normalize(Append(done, Head(rest)), Tail(rest))

\* Path.resolve(): ".." removed and a symbolic link followed
Resolve(fs, path) ==
    LET p == Normalize(<<>>, path)
    IN  IF p \in DOMAIN fs.links THEN fs.links[p] ELSE p

\* Path.exists()
Exists(fs, path) == Resolve(fs, path) \in fs.files

\* the check of lines 58: a prefix test on the two strings
path_check(file_path, base_path) == IsPrefix(PathStr(base_path), PathStr(file_path))

HTTPException(status_code, detail) ==
    [status_code |-> status_code, detail |-> detail, path |-> <<>>]

FileResponse(path) == [status_code |-> 200, detail |-> "file", path |-> path]

\* the try block of lines 53-67: the HTTPException raised for a path outside
\* the base is itself an Exception, and the except clause answers it with 500
resolve_step(fs, image_base_path, file_path) ==
    LET resolved == Resolve(fs, file_path)
        base_path == Resolve(fs, image_base_path)
        raised == IF ~path_check(resolved, base_path)
                  THEN HTTPException(403, "Access denied")
                  ELSE [none |-> TRUE]
    IN  IF raised # [none |-> TRUE]
        THEN HTTPException(500, "Path resolution error")
        ELSE FileResponse(resolved)

\* lines 30-31: a name without an image extension gets ".png"
with_extension(filename) ==
    IF \E e \in allowed_extensions : EndsWith(filename, e)
    THEN filename ELSE filename \o png

get_image(fs, image_base_path, table_name, filename) ==
    LET fname == with_extension(filename)
        file_path == image_base_path \o <<table_name, fname>>
    IN  IF ~Exists(fs, file_path)
        THEN HTTPException(404, "Image not found")
        ELSE IF Lower(Suffix(fname)) \notin allowed_extensions
        THEN HTTPException(400, "Invalid file type. Only image files are allowed.")
        ELSE resolve_step(fs, image_base_path, file_path)

srv == <<"s", "r", "v">>

imgdir == <<"i", "m", "g">>

tb == <<"t", "b">>

a_png == <<"a">> \o png

\* the file systems of the model: without and with symbolic links
FileSystems ==
    LET files == { <<srv, imgdir, tb, a_png>>, <<srv, imgdir, tb, png>>,
                   <<srv, imgdir, tb, <<"A", ".", "P", "N", "G">> \o png>>,
                   <<srv, imgdir \o png>>, <<srv, <<"s">> \o png>>,
                   <<srv, <<"i", "m", "g", "s">>, <<"p">> \o png>>,
                   <<<<"e", "t", "c">>, <<"p">> \o png>> }
    IN  { [files |-> files, links |-> <<>>],
          [files |-> files,
           links |-> (<<srv, imgdir, tb, <<"l">> \o png>>
                          :> <<srv, <<"i", "m", "g", "s">>, <<"p">> \o png>>)
                  @@ (<<srv, imgdir, tb, <<"o">> \o png>>
                          :> <<<<"e", "t", "c">>, <<"p">> \o png>>)] }

BasePaths == { <<srv, imgdir>>, <<srv, imgdir, tb>> }

TableNames == { tb, <<".", ".">>, <<"z", "z">> }

FileNames ==
    { a_png, <<"a">>, imgdir \o png, imgdir, <<"s">> \o png, png,
      <<"l">> \o png, <<"o">>, <<"A", ".", "P", "N", "G">>, <<"m">> \o png }

\* GET /images/{table_name}/{filename}
GetImage(fs, image_base_path, table_name, filename) ==
    /\ img' = [ fs |-> fs, image_base_path |-> image_base_path,
                table_name |-> table_name, filename |-> filename,
                response |-> get_image(fs, image_base_path, table_name, filename) ]
    /\ UNCHANGED <<pc, req, stmt, fallback, fi, executed, response, redis_client, health>>

NextImages ==
    \E fs \in FileSystems, b \in BasePaths, tn \in TableNames, fn \in FileNames :
        GetImage(fs, b, tn, fn)

SpecImages == Init /\ [][NextImages]_vars

----------------------------------------------------------------------------
(* config/redis.py and api/routes/health.py.  A cached value is a dict or  *)
(* None; the shipped RedisClient keeps nothing but client = None.          *)

\* calls of database_health the model follows
MaxHealthCalls == 3

\* None where a dict is expected
NoneValue == [none |-> TRUE]

\* RedisClient.set: pass
RedisClient_set(self, key, value, ttl) == self

\* RedisClient.get: return None
RedisClient_get(self, key) == NoneValue

\* value and value.get("status") == "ok"
value_ok(value) ==
    /\ value # NoneValue
    /\ "status" \in DOMAIN value
    /\ value.status = "ok"

\* lines 35-38
unknown_result ==
    [ mysql |-> [status |-> "unknown", message |-> ""],
      redis |-> [status |-> "unknown", message |-> ""] ]

\* what str(e) of a failed MySQL session or statement reads
MySQLErrors == {"connection refused", "access denied for user", "timed out"}

\* lines 50-62: the key is written, read back and compared.  No method of
\* the shipped client raises, so the except branch is never taken.
redis_check(client) ==
    LET written == RedisClient_set(client, "health_check", [status |-> "ok"], 10)
        value == RedisClient_get(written, "health_check")
    IN  << written,
           IF value_ok(value)
           THEN [status |-> "connected", message |-> "Redis connection successful"]
           ELSE [status |-> "failed", message |-> "Redis read/write test failed"] >>

\* any() where the code has all()
any_connected(result) ==
    \E service \in DOMAIN result : result[service].status = "connected"

\* lines 65-68
all_connected(result) ==
    \A service \in DOMAIN result : result[service].status = "connected"

\* lines 70-76: HTTPException(503, detail=result) or the healthy body
health_response(result) ==
    IF ~all_connected(result)
    THEN [status_code |-> 503, body |-> [detail |-> result]]
    ELSE [status_code |-> 200, body |-> [status |-> "healthy", services |-> result]]

\* GET /health/db is called
DatabaseHealth ==
    /\ health.pc \in {"idle", "done"}
    /\ Len(health.log) < MaxHealthCalls
    /\ health' = [health EXCEPT !.pc = "mysql", !.result = unknown_result,
                                !.response = [none |-> TRUE]]
    /\ UNCHANGED <<pc, req, stmt, fallback, fi, executed, response, img, redis_client>>

\* SELECT 1 succeeds
MySQLConnected ==
    /\ health.pc = "mysql"
    /\ health' = [health EXCEPT
                     !.pc = "redis",
                     !.result.mysql = [status |-> "connected",
                                       message |-> "MySQL connection successful"]]
    /\ UNCHANGED <<pc, req, stmt, fallback, fi, executed, response, img, redis_client>>

\* the session or SELECT 1 raises e
MySQLFailed(e) ==
    /\ health.pc = "mysql"
    /\ health' = [health EXCEPT
                     !.pc = "redis",
                     !.result.mysql = [status |-> "failed",
                                       message |-> "MySQL connection failed: " \o e]]
    /\ UNCHANGED <<pc, req, stmt, fallback, fi, executed, response, img, redis_client>>

\* the Redis test, the overall status and the answer
RedisCheckAndRespond ==
    /\ health.pc = "redis"
    /\ LET rc == redis_check(redis_client)
           result == [health.result EXCEPT !.redis = rc[2]]
       IN  /\ redis_client' = rc[1]
           /\ health' = [health EXCEPT
                            !.pc = "done",
                            !.result = result,
                            !.response = health_response(result),
                            !.log = Append(health.log, health_response(result))]
    /\ UNCHANGED <<pc, req, stmt, fallback, fi, executed, response, img>>

NextHealth ==
    \/ DatabaseHealth
    \/ MySQLConnected
    \/ \E e \in MySQLErrors : MySQLFailed(e)
    \/ RedisCheckAndRespond

SpecHealth == Init /\ [][NextHealth]_vars

----------------------------------------------------------------------------
(* Properties *)

\* the placeholder names / the text fragments occurring in a query text
Placeholders(q) == { q[i].s : i \in { j \in 1..Len(q) : q[j].t = "ph" } }

TextFragments(q) == { q[i].s : i \in { j \in 1..Len(q) : q[j].t = "sql" } }

\* every fragment of text the two modules write into a statement
StaticFragments ==
    { "SELECT * FROM tb_wedding_hall", " WHERE ", " AND ", "address LIKE ",
      "venueType IN (", ", ", ")", "parking >= ", "parking <= ", "venueType != ",
      " ORDER BY CASE WHEN venueType = 'HOTEL' THEN 0 ELSE 1 END", " LIMIT ",
      "SELECT * FROM tb_wedding_hall LIMIT 1",
      "SELECT * FROM tb_wedding_hall WHERE venueType IN (", ") LIMIT 1" }

\* the values of the running request, as they would read in a text
RequestValues ==
    { req.guest_count, req.budget, req.region, "%" \o req.region \o "%",
      req.style_preference, req.season, ToString(req.num_recommendations) }

Parameterized(q, params) ==
    /\ Placeholders(q) = DOMAIN params
    /\ TextFragments(q) \subseteq StaticFragments
    /\ TextFragments(q) \cap RequestValues = {}

\* C1: in the statement build_venue_query returns and in every fallback
\* statement, the placeholders of the text are exactly the keys of the
\* parameter mapping, and the text is made of static fragments only: no value
\* of the request occurs in it.
C1_Parameterized ==
    pc # "idle" =>
        /\ Parameterized(stmt[1], stmt[2])
        /\ \A i \in 1..Len(fallback) : Parameterized(fallback[i][1], fallback[i][2])

\* a request with a region, three style types and both parking bounds, whose
\* primary query was empty so that the fallback list is built
C1_Witness ==
    /\ pc = "fallback"
    /\ {"region_pattern", "venue_type_2", "parking_min", "parking_max", "limit"}
           \subseteq DOMAIN stmt[2]
    /\ Len(fallback) = 2
    /\ DOMAIN fallback[1][2] = {"vt_0", "vt_1", "vt_2"}

IsUnconditional(e) ==
    /\ e.query = <<Sql("SELECT * FROM tb_wedding_hall LIMIT 1")>>
    /\ DOMAIN e.params = {}

IsStyleOnly(e, types) ==
    /\ e.query[1] = Sql("SELECT * FROM tb_wedding_hall WHERE venueType IN (")
    /\ e.query[Len(e.query)] = Sql(") LIMIT 1")
    /\ Cardinality(DOMAIN e.params) = Len(types)
    /\ { e.params[k] : k \in DOMAIN e.params } = { types[i] : i \in 1..Len(types) }

\* C2: a fallback query is executed only after the primary query returned no
\* row; with a non-empty style type list the first fallback executed is the
\* style-only query and the unconditional one follows only its empty result;
\* with an empty list only the unconditional query is executed; nothing is
\* executed after a fallback query returned a row.
C2_FallbackOrder ==
    pc # "idle" =>
        LET n == Len(executed)
            types == style_to_venue_type(req.style_preference)
        IN  /\ n >= 1 => executed[1].query = stmt[1] /\ executed[1].params = stmt[2]
            /\ n >= 2 => executed[1].result = "ok" /\ executed[1].rows = <<>>
            /\ types # <<>> =>
                   /\ n >= 2 => IsStyleOnly(executed[2], types)
                   /\ n >= 3 => /\ IsUnconditional(executed[3])
                                /\ executed[2].result = "ok"
                                /\ executed[2].rows = <<>>
            /\ types = <<>> =>
                   /\ n >= 2 => IsUnconditional(executed[2])
                   /\ n <= 2
            /\ \A i \in 2..n : executed[i].rows # <<>> => i = n

\* the style-only query was empty and the unconditional one returned a row
C2_Witness ==
    /\ pc = "returned"
    /\ Len(executed) = 3
    /\ style_to_venue_type(req.style_preference) # <<>>
    /\ executed[3].rows # <<>>

\* C3: when the execution of the primary or of a fallback query fails, the
\* request ends in the error: the failed call is the last Execute call of the
\* request and no payload is returned.
C3_ErrorPropagates ==
    /\ \A i \in 1..Len(executed) :
           executed[i].result = "error" =>
               i = Len(executed) /\ pc = "raised" /\ response = NoResponse
    /\ pc = "raised" => response = NoResponse /\ executed[Len(executed)].result = "error"

\* the style-only fallback query failed
C3_Witness ==
    /\ pc = "raised"
    /\ Len(executed) = 2
    /\ Len(fallback) = 2
    /\ executed[2].result = "error"

\* the keys of the venue-type placeholders of the primary statement
TypeKeys(params) ==
    DOMAIN params \ {"region_pattern", "parking_min", "parking_max", "excluded_type", "limit"}

\* C4: for summer or winter and a style whose type list has no indoor member,
\* the statement carries a venueType IN predicate with four placeholders bound
\* to HOTEL, WEDDING_HALL, RESTAURANT and HOUSE_STUDIO.
C4_IndoorSetWhenNoIndoorStyleType ==
    ( /\ pc # "idle"
      /\ req.season \in {"summer", "winter"}
      /\ LET types == style_to_venue_type(req.style_preference)
         IN  \A i \in 1..Len(types) : ~InSeq(types[i], indoor_types) )
    => /\ "venueType IN (" \in TextFragments(stmt[1])
       /\ Cardinality(TypeKeys(stmt[2]) \cap Placeholders(stmt[1])) = 4
       /\ { stmt[2][k] : k \in TypeKeys(stmt[2]) }
              = {"HOTEL", "WEDDING_HALL", "RESTAURANT", "HOUSE_STUDIO"}

\* C5 (as amended): one request makes at most three Execute calls: the primary
\* query and at most two fallback queries.
C5_AtMostThreeRoundTrips == Len(executed) <= 3

\* C5 (as stated): one request makes at most two Execute calls.
C5_AtMostTwoRoundTrips == Len(executed) <= 2

\* the primary, the style-only and the unconditional query all ran
C5_Witness ==
    /\ pc = "returned"
    /\ Len(executed) = 3
    /\ response = [ recommendations |-> <<>>, overall_advice |-> NO_MATCH_ADVICE ]

\* C6: after an empty primary result generate returns either one
\* recommendation, built from the row of the first and only candidate that
\* returned a row, whose why_recommended says that nothing matched exactly and
\* names that candidate's relaxation, or the empty list with the no-match
\* advice after every candidate returned no row.
C6_FallbackPayload ==
    ( pc = "returned" /\ executed[1].rows = <<>> ) =>
        LET n == Len(executed)
            last == executed[n]
            label == IF IsUnconditional(last) THEN RELAX_REGION ELSE STYLE_ONLY
        IN  /\ n >= 2
            /\ \A i \in 1..(n - 1) : executed[i].result = "ok" /\ executed[i].rows = <<>>
            /\ IF last.rows # <<>>
               THEN /\ Len(response.recommendations) = 1
                    /\ response.recommendations[1].venue_name = last.rows[1].name
                    /\ response.recommendations[1].description
                           = venue_type_kr(last.rows[1].venueType) \o " type wedding hall."
                    /\ response.recommendations[1].why_recommended
                           = "No exact match; recommended by " \o label \o "."
               ELSE /\ response = [ recommendations |-> <<>>,
                                    overall_advice |-> NO_MATCH_ADVICE ]
                    /\ n = 1 + Len(fallback)

\* the second candidate, the unconditional one, returned the row
C6_Witness ==
    /\ pc = "returned"
    /\ Len(executed) = 3
    /\ executed[3].rows # <<>>
    /\ Len(response.recommendations) = 1
    /\ response.recommendations[1].why_recommended
           = "No exact match; recommended by " \o RELAX_REGION \o "."

\* positions of a token in a query text
Positions(q, tok) == { i \in 1..Len(q) : q[i] = tok }

\* C7: budget low: exactly one venueType != exclusion, bound to HOTEL through
\* a placeholder, and no ORDER BY; budget high: no exclusion, and one ORDER BY
\* ranking HOTEL first, after the WHERE clause and right before LIMIT; any
\* other budget: neither.
C7_BudgetRule ==
    pc # "idle" =>
        LET q == stmt[1]
            excl == Positions(q, Sql("venueType != "))
            ord == Positions(q, Sql(" ORDER BY CASE WHEN venueType = 'HOTEL' THEN 0 ELSE 1 END"))
        IN  CASE req.budget = "low" ->
                    /\ Cardinality(excl) = 1
                    /\ \A i \in excl : q[i + 1] = Ph("excluded_type")
                    /\ "excluded_type" \in DOMAIN stmt[2]
                    /\ stmt[2]["excluded_type"] = "HOTEL"
                    /\ ord = {}
              [] req.budget = "high" ->
                    /\ excl = {}
                    /\ "excluded_type" \notin DOMAIN stmt[2]
                    /\ Cardinality(ord) = 1
                    /\ \A i \in ord :
                           /\ i + 2 = Len(q)
                           /\ q[i + 1] = Sql(" LIMIT ")
                           /\ q[i + 2] = Ph("limit")
                           /\ \A j \in Positions(q, Sql(" WHERE ")) : j < i
              [] OTHER ->
                    /\ excl = {}
                    /\ "excluded_type" \notin DOMAIN stmt[2]
                    /\ ord = {}

\* a high budget with a WHERE clause before the ORDER BY
C7_Witness ==
    /\ pc # "idle"
    /\ req.budget = "high"
    /\ Positions(stmt[1], Sql(" WHERE ")) # {}
    /\ Positions(stmt[1], ORDER_BY_HOTEL) # {}

\* C8: the parking lower bound is always emitted for a recognized bucket
\* (small 0, medium 30, large 100), the upper bound exactly for small (50) and
\* medium (150), and nothing for an unrecognized bucket.
C8_ParkingRule ==
    pc # "idle" =>
        LET q == stmt[1]
            p == stmt[2]
            lower(n) == /\ Cardinality(Positions(q, Sql("parking >= "))) = 1
                        /\ \A i \in Positions(q, Sql("parking >= ")) : q[i + 1] = Ph("parking_min")
                        /\ "parking_min" \in DOMAIN p
                        /\ p["parking_min"] = n
            upper(n) == /\ Cardinality(Positions(q, Sql("parking <= "))) = 1
                        /\ \A i \in Positions(q, Sql("parking <= ")) : q[i + 1] = Ph("parking_max")
                        /\ "parking_max" \in DOMAIN p
                        /\ p["parking_max"] = n
            no_lower == Positions(q, Sql("parking >= ")) = {} /\ "parking_min" \notin DOMAIN p
            no_upper == Positions(q, Sql("parking <= ")) = {} /\ "parking_max" \notin DOMAIN p
        IN  CASE req.guest_count = "small"  -> lower(0) /\ upper(50)
              [] req.guest_count = "medium" -> lower(30) /\ upper(150)
              [] req.guest_count = "large"  -> lower(100) /\ no_upper
              [] OTHER                      -> no_lower /\ no_upper

\* the small bucket, whose lower bound is 0
C8_Witness ==
    /\ pc # "idle"
    /\ req.guest_count = "small"
    /\ "parking_min" \in DOMAIN stmt[2]
    /\ stmt[2]["parking_min"] = 0

\* the rows the returned recommendations were built from
SourceRows == executed[Len(executed)].rows

\* C9 (as amended): no null reaches location, phone or image_url: a null
\* address becomes the text "정보 없음", a null phone or image reference the
\* empty string.
C9_NullsReplaced ==
    pc = "returned" =>
        /\ Len(response.recommendations) = Len(SourceRows)
        /\ \A i \in 1..Len(response.recommendations) :
               LET rec == response.recommendations[i]
                   row == SourceRows[i]
               IN  /\ rec.location # None /\ rec.phone # None /\ rec.image_url # None
                   /\ row.address = None => rec.location = "no information"
                   /\ row.phone = None => rec.phone = ""
                   /\ row.imageUrl = None => rec.image_url = ""

\* C9 (as stated): a null address, phone or image reference is replaced by a
\* "not available" text.
C9_NotAvailableText ==
    pc = "returned" =>
        \A i \in 1..Len(response.recommendations) :
            LET rec == response.recommendations[i]
                row == SourceRows[i]
            IN  /\ row.address = None => rec.location \notin {None, ""}
                /\ row.phone = None => rec.phone \notin {None, ""}
                /\ row.imageUrl = None => rec.image_url \notin {None, ""}

\* a fallback row with the three optional columns null
C9_Witness ==
    /\ pc = "returned"
    /\ Len(executed) >= 2
    /\ Len(response.recommendations) = 1
    /\ SourceRows[1].address = None
    /\ SourceRows[1].phone = None
    /\ SourceRows[1].imageUrl = None
    /\ response.recommendations[1].location = "no information"

\* C10: an existing file with an image extension whose resolved path is not
\* under the resolved base path is answered with 403 "Access denied", and a
\* file is served only from inside the base directory.
C10_TraversalDenied ==
    img # [none |-> TRUE] =>
        LET file_path == img.image_base_path
                             \o <<img.table_name, with_extension(img.filename)>>
            resolved == Resolve(img.fs, file_path)
            base_path == Resolve(img.fs, img.image_base_path)
            inside == IsPrefix(base_path, resolved)
            image == Lower(Suffix(with_extension(img.filename))) \in allowed_extensions
        IN  /\ ( Exists(img.fs, file_path) /\ image /\ ~inside )
                   => ( img.response.status_code = 403
                        /\ img.response.detail = "Access denied" )
            /\ img.response.status_code = 200 => inside

\* C11: database_health answers healthy exactly when the MySQL and the Redis
\* check both end "connected"; the read-back through the no-op RedisClient
\* gives None, so the Redis status is "failed" and the answer is the 503
\* error on every call, whatever MySQL answered.
C11_HealthAlways503 ==
    /\ health.pc = "done" =>
           /\ health.response.status_code = 200
                  <=> ( health.result.mysql.status = "connected"
                        /\ health.result.redis.status = "connected" )
           /\ health.response.status_code \in {200, 503}
           /\ health.result.redis.status = "failed"
           /\ health.response.status_code = 503
           /\ health.response.body = [detail |-> health.result]
    /\ \A i \in 1..Len(health.log) : health.log[i].status_code = 503

\* a later call whose MySQL check succeeded, answered 503 all the same
C11_Witness ==
    /\ health.pc = "done"
    /\ Len(health.log) >= 2
    /\ health.result.mysql.status = "connected"
    /\ health.result.redis.status = "failed"
    /\ health.response.status_code = 503

====
